---- MODULE Spec2Model ----
(***************************************************************************)
(* nalloc: the lock-free bump engine (bump.rs), the witness handle         *)
(* (witness.rs), the arena manager (arena.rs) and the lazily initialised   *)
(* facade NAlloc (lib.rs), as a state machine.                             *)
(*                                                                         *)
(* Addresses and sizes are usize values of WordBits bits and the regions   *)
(* are scaled down to a few bytes.  Every atomic load, store and           *)
(* compare-exchange of the code is one step of the thread performing it.   *)
(***************************************************************************)
EXTENDS Integers, Naturals, Sequences, FiniteSets, TLC

\* ---------------------------------------------------------------- bounds

\* Width of usize in bits.
WordBits == 7
\* Largest request size within the contract: (0, capacity] and one beyond.
MaxSize == 5
\* Largest size asked of the witness handle and of the ambient allocator.
MaxSmall == 3
\* Blocks an engine hands out before the wide-size callers stop asking.
MaxBlocks == 2

\* ------------------------------------------------------------- constants

NULL == 0

AddrSpace == 2 ^ WordBits

\* The threads sharing the engine or the facade.
Threads == {1, 2}

\* The three engines an ArenaManager owns.
Arenas == {"witness", "polynomial", "scratch"}

\* A BumpAlloc built by BumpAlloc::new over a caller's buffer, as the unit tests
\* build it: the engine the engine-level specifications exercise.
Engine == "buffer"

Engines == Arenas \cup {Engine}

\* The byte user code fills its blocks with (0xFF), and the byte values.
FillBytes == {255}

Bytes == {0} \cup FillBytes

\* The power-of-two alignments requested.
Aligns == {1, 2, 4}

Sizes == 1 .. MaxSize

\* The requests made of the witness handle and of the ambient allocator.
SmallSizes == 1 .. MaxSmall

SmallAligns == {1, 2}

\* Requests whose end does not fit in a usize.
HugeSizes == {AddrSpace - 1, AddrSpace - 2}

\* config.rs: SECURE_WIPE_PATTERN.
SECURE_WIPE_PATTERN == 0

\* config.rs: LARGE_ALLOC_THRESHOLD, scaled to the regions' size.
LARGE_ALLOC_THRESHOLD == 2

\* The compile-time variants of volatile_memset.
Targets == {"linux", "apple", "other"}

\* BumpAlloc.base: the regions of the platform layer are page aligned, the
\* caller's buffer is only 2-aligned.
Base(a) ==
    CASE a = "buffer" -> 10
      [] a = "witness" -> 16
      [] a = "polynomial" -> 32
      [] a = "scratch" -> 48

\* BumpAlloc::capacity: limit - base, the size the engine was built with.
Capacity(a) == 4

\* BumpAlloc.limit = base.add(size).
Limit(a) == Base(a) + Capacity(a)

Region(a) == Base(a) .. (Limit(a) - 1)

Mapped == UNION {Region(a) : a \in Engines}

\* ------------------------------------------------------------- variables

VARIABLES
    cursor,        \* BumpAlloc.cursor of each engine
    is_recycled,   \* BumpAlloc.is_recycled of each engine
    mem,           \* the bytes of the three regions, by address
    arenas,        \* NAlloc.arenas: NULL or the published manager
    initializing,  \* NAlloc.initializing
    leaked,        \* regions reserved by a failed construction and never released
    th,            \* each thread's call in progress and its locals
    live,          \* blocks handed out since the engine's last reset, in order
    published,     \* every manager pointer stored in NAlloc.arenas, in order
    released       \* the sys::dealloc calls made so far, in order

vars == <<cursor, is_recycled, mem, arenas, initializing, leaked, th, live, published, released>>

\* A thread outside any call.  stale is set by secure_reset: the tail beyond the
\* cursor held non-zero bytes when the wipe began.  ptr and old are realloc's
\* and dealloc's arguments: the block passed in and its layout's size.  stats is
\* the ArenaStats value a call of stats returns.
Idle == [pc |-> "idle", op |-> "none", arena |-> Engine, size |-> 0, align |-> 1,
         current |-> 0, ret |-> NULL, stale |-> FALSE, mgr |-> NULL,
         ptr |-> NULL, old |-> 0, stats |-> <<>>]

\* ------------------------------------------------------------ arithmetic

\* usize addition as the release build performs it.
WrapAdd(x, y) == (x + y) % AddrSpace

\* usize subtraction as the release build performs it.
WrapSub(x, y) == (x - y + AddrSpace) % AddrSpace

\* !x on a usize.
BitNot(x) == AddrSpace - 1 - x

RECURSIVE BitAndN(_, _, _)
BitAndN(x, y, n) ==
    IF n = 0 THEN 0
    ELSE ((x % 2) * (y % 2)) + 2 * BitAndN(x \div 2, y \div 2, n - 1)

\* x & y on usize values.
BitAnd(x, y) == BitAndN(x, y, WordBits)

\* Mutant of AlignUp: the cursor is used as it is, without rounding up.
AlignUpNoMask(current, align) == current

\* aligned = (current + align - 1) & !(align - 1)
AlignUp(current, align) ==
    BitAnd(WrapSub(WrapAdd(current, align), 1), BitNot(WrapSub(align, 1)))

\* Mutant of NextOf: one guard byte is left after every block.
NextOfGuarded(current, size, align) == WrapAdd(WrapAdd(AlignUp(current, align), size), 1)

\* next = aligned + size
NextOf(current, size, align) == WrapAdd(AlignUp(current, align), size)

\* The additions of the loop body leave the usize range (a debug build panics).
Overflows(current, size, align) ==
    \/ current + align >= AddrSpace
    \/ AlignUp(current, align) + size >= AddrSpace

\* Mutant of Exhausted: the bound is checked one byte late.
ExhaustedLate(a, next) == next > Limit(a) + 1

\* if next > self.limit: the request does not fit.
Exhausted(a, next) == next > Limit(a)

\* BumpAlloc::used.
Used(a) == WrapSub(cursor[a], Base(a))

\* BumpAlloc::remaining.
Remaining(a) == WrapSub(Capacity(a), Used(a))

\* ------------------------------------------------------------------ init

\* BumpAlloc::new: cursor = base, is_recycled = false.
NewCursor == [a \in Engines |-> Base(a)]

\* Engines as BumpAlloc::new leaves them; the memory under them holds zeroes
\* (fresh pages) or a non-zero fill (a buffer the caller filled).
Init ==
    /\ cursor = NewCursor
    /\ is_recycled = [a \in Engines |-> FALSE]
    /\ \E fill \in Bytes : mem = [x \in Mapped |-> fill]
    /\ arenas = NULL
    /\ initializing = FALSE
    /\ leaked = 0
    /\ th = [t \in Threads |-> Idle]
    /\ live = <<>>
    /\ published = <<>>
    /\ released = <<>>

\* ------------------------------------------------------- BumpAlloc::alloc

\* No other thread is inside a call.
Quiescent(t) == \A u \in Threads \ {t} : th[u].pc = "idle"

\* No thread is inside reset or secure_reset on engine a.
NotResetting(a) ==
    \A u \in Threads : ~(th[u].op \in {"reset", "secure_reset"} /\ th[u].arena = a)

\* A thread calls BumpAlloc::alloc(size, align) on engine a.  With sync the caller
\* honours the contract that no reset runs concurrently with an allocation.
CallAlloc(t, a, size, align, sync) ==
    /\ th[t].pc = "idle"
    /\ sync => NotResetting(a)
    /\ th' = [th EXCEPT ![t] = [Idle EXCEPT !.pc = "load", !.op = "alloc", !.arena = a,
                                            !.size = size, !.align = align]]
    /\ UNCHANGED <<cursor, is_recycled, mem, arenas, initializing, leaked, live, published, released>>

\* Mutant of AfterAlloc: realloc copies without looking at the new pointer.
AfterAllocUnchecked(op, p) ==
    IF op = "realloc" THEN "copy"
    ELSE IF p = NULL THEN "ret"
    ELSE CASE op = "witness_alloc" -> "zero"
           [] op = "alloc_zeroed" -> "zero_ambient"
           [] OTHER -> "ret"

\* Where a call continues once the engine's alloc has returned p.
AfterAlloc(op, p) ==
    IF p = NULL THEN "ret"
    ELSE CASE op = "witness_alloc" -> "zero"
           [] op = "alloc_zeroed" -> "zero_ambient"
           [] op = "realloc" -> "copy"
           [] OTHER -> "ret"

\* let current = cursor.load(); let aligned = ..; let next = aligned + size;
\* if next > limit { return null }
AllocLoad(t) ==
    /\ th[t].pc = "load"
    /\ LET a == th[t].arena
           current == cursor[a]
           next == NextOf(current, th[t].size, th[t].align)
       IN  th' = [th EXCEPT ![t] =
                    IF Exhausted(a, next)
                    THEN [@ EXCEPT !.pc = AfterAlloc(th[t].op, NULL), !.ret = NULL]
                    ELSE [@ EXCEPT !.pc = "cas", !.current = current]]
    /\ UNCHANGED <<cursor, is_recycled, mem, arenas, initializing, leaked, live, published, released>>

\* A debug build panics on the overflowing addition instead of wrapping.
AllocOverflowPanic(t) ==
    /\ th[t].pc = "load"
    /\ Overflows(cursor[th[t].arena], th[t].size, th[t].align)
    /\ th' = [th EXCEPT ![t] = [@ EXCEPT !.pc = "panicked"]]
    /\ UNCHANGED <<cursor, is_recycled, mem, arenas, initializing, leaked, live, published, released>>

\* Mutant of CompareExchange: the exchange never succeeds.
CompareExchangeNever(value, current) == FALSE

\* cursor.compare_exchange_weak(current, next, ..): Ok exactly if cursor == current.
CompareExchange(value, current) == value = current

\* Mutant of AllocCas: the engine clears the block it hands out.
AllocCasZeroing(t) ==
    /\ th[t].pc = "cas"
    /\ LET a == th[t].arena
           aligned == AlignUp(th[t].current, th[t].align)
           next == NextOf(th[t].current, th[t].size, th[t].align)
       IN  /\ CompareExchange(cursor[a], th[t].current)
           /\ cursor' = [cursor EXCEPT ![a] = next]
           /\ mem' = [x \in Mapped |->
                        IF aligned <= x /\ x < aligned + th[t].size THEN 0 ELSE mem[x]]
           /\ th' = [th EXCEPT ![t] = [@ EXCEPT !.pc = AfterAlloc(th[t].op, aligned),
                                                !.current = 0, !.ret = aligned]]
           /\ live' = IF aligned = NULL THEN live
                      ELSE Append(live, [arena |-> a, ptr |-> aligned, size |-> th[t].size])
    /\ UNCHANGED <<is_recycled, arenas, initializing, leaked, published, released>>

\* The compare-exchange succeeds: cursor = next; return aligned as *mut u8.
AllocCas(t) ==
    /\ th[t].pc = "cas"
    /\ LET a == th[t].arena
           aligned == AlignUp(th[t].current, th[t].align)
           next == NextOf(th[t].current, th[t].size, th[t].align)
       IN  /\ CompareExchange(cursor[a], th[t].current)
           /\ cursor' = [cursor EXCEPT ![a] = next]
           /\ th' = [th EXCEPT ![t] = [@ EXCEPT !.pc = AfterAlloc(th[t].op, aligned),
                                                !.current = 0, !.ret = aligned]]
           /\ live' = IF aligned = NULL THEN live
                      ELSE Append(live, [arena |-> a, ptr |-> aligned, size |-> th[t].size])
    /\ UNCHANGED <<is_recycled, mem, arenas, initializing, leaked, published, released>>

\* The compare-exchange fails because another thread moved the cursor: retry.
AllocCasFail(t) ==
    /\ th[t].pc = "cas"
    /\ ~CompareExchange(cursor[th[t].arena], th[t].current)
    /\ th' = [th EXCEPT ![t] = [@ EXCEPT !.pc = "load", !.current = 0]]
    /\ UNCHANGED <<cursor, is_recycled, mem, arenas, initializing, leaked, live, published, released>>

\* The weak compare-exchange fails although the cursor did not move: retry.
AllocCasSpurious(t) ==
    /\ th[t].pc = "cas"
    /\ CompareExchange(cursor[th[t].arena], th[t].current)
    /\ th' = [th EXCEPT ![t] = [@ EXCEPT !.pc = "load", !.current = 0]]
    /\ UNCHANGED <<cursor, is_recycled, mem, arenas, initializing, leaked, live, published, released>>

\* The call returns to user code, which leaves the memory as it is.
Return(t) ==
    /\ th[t].pc = "ret"
    /\ th' = [th EXCEPT ![t] = Idle]
    /\ UNCHANGED <<cursor, is_recycled, mem, arenas, initializing, leaked, live, published, released>>

\* The call returns a block and user code fills it with a non-zero byte.
UserWrite(t, v) ==
    /\ th[t].pc = "ret"
    /\ th[t].op \in {"alloc", "witness_alloc", "ambient_alloc", "alloc_zeroed", "realloc",
                     "alloc_fft_friendly", "alloc_huge"}
    /\ th[t].ret # NULL
    /\ mem' = [x \in Mapped |->
                 IF th[t].ret <= x /\ x < th[t].ret + th[t].size THEN v ELSE mem[x]]
    /\ th' = [th EXCEPT ![t] = Idle]
    /\ UNCHANGED <<cursor, is_recycled, arenas, initializing, leaked, live, published, released>>

\* --------------------------------------------------- WitnessArena::alloc

\* WitnessArena::alloc(size, align): let ptr = self.inner.alloc(size, align).
CallWitnessAlloc(t, a, size, align, sync) ==
    /\ th[t].pc = "idle"
    /\ sync => NotResetting(a)
    /\ th' = [th EXCEPT ![t] = [Idle EXCEPT !.pc = "load", !.op = "witness_alloc",
                                            !.arena = a, !.size = size,
                                            !.align = align]]
    /\ UNCHANGED <<cursor, is_recycled, mem, arenas, initializing, leaked, live, published, released>>

\* Mutant of WitnessZero: the block is zeroed only on a recycled engine.
WitnessZeroIfRecycled(t) ==
    /\ th[t].pc = "zero"
    /\ mem' = [x \in Mapped |->
                 IF is_recycled[th[t].arena] /\ th[t].ret <= x /\ x < th[t].ret + th[t].size
                 THEN 0 ELSE mem[x]]
    /\ th' = [th EXCEPT ![t] = [@ EXCEPT !.pc = "ret"]]
    /\ UNCHANGED <<cursor, is_recycled, arenas, initializing, leaked, live, published, released>>

\* if !ptr.is_null() { write_bytes(ptr, 0, size) }; ptr
WitnessZero(t) ==
    /\ th[t].pc = "zero"
    /\ mem' = [x \in Mapped |->
                 IF th[t].ret <= x /\ x < th[t].ret + th[t].size THEN 0 ELSE mem[x]]
    /\ th' = [th EXCEPT ![t] = [@ EXCEPT !.pc = "ret"]]
    /\ UNCHANGED <<cursor, is_recycled, arenas, initializing, leaked, live, published, released>>

\* ----------------------------------------- BumpAlloc::reset, secure_reset

\* A thread calls reset() or secure_reset() on engine a.  With sync the caller has
\* quiesced every other user of the engine, as the contract requires.
CallReset(t, a, secure, sync) ==
    /\ th[t].pc = "idle"
    /\ sync => Quiescent(t)
    /\ th' = [th EXCEPT ![t] =
                [Idle EXCEPT !.pc = IF secure THEN "wipe" ELSE "reset_cursor",
                             !.op = IF secure THEN "secure_reset" ELSE "reset",
                             !.arena = a]]
    /\ UNCHANGED <<cursor, is_recycled, mem, arenas, initializing, leaked, live, published, released>>

\* volatile_memset(ptr, value, len): explicit_bzero when value == 0 on Linux,
\* memset_s on Apple targets, a loop of write_volatile elsewhere.
VolatileMemset(m, ptr, value, len, target) ==
    IF target = "linux" /\ value # 0 THEN m
    ELSE [x \in DOMAIN m |-> IF ptr <= x /\ x < ptr + len THEN value ELSE m[x]]

\* Mutant of WipeLen: only the used prefix is wiped.
WipeLenUsed(a) == Used(a)

\* let size = limit - base: the length secure_reset wipes.
WipeLen(a) == WrapSub(Limit(a), Base(a))

\* secure_reset: volatile_memset(base, SECURE_WIPE_PATTERN, size); then reset().
SecureWipe(t) ==
    /\ th[t].pc = "wipe"
    /\ LET a == th[t].arena
       IN  /\ \E target \in Targets :
                 mem' = VolatileMemset(mem, Base(a), SECURE_WIPE_PATTERN, WipeLen(a), target)
           /\ th' = [th EXCEPT ![t] =
                       [@ EXCEPT !.pc = "reset_cursor",
                                 !.stale = \E x \in Region(a) : x >= cursor[a] /\ mem[x] # 0]]
    /\ UNCHANGED <<cursor, is_recycled, arenas, initializing, leaked, live, published, released>>

\* Mutant of ResetCursor: the cursor is left where it stands.
ResetCursorKeep(t) ==
    /\ th[t].pc = "reset_cursor"
    /\ th' = [th EXCEPT ![t] = [@ EXCEPT !.pc = "reset_flag"]]
    /\ UNCHANGED <<cursor, is_recycled, mem, arenas, initializing, leaked, live, published, released>>

\* reset: cursor.store(base).  Every block handed out so far is invalid from here.
ResetCursor(t) ==
    /\ th[t].pc = "reset_cursor"
    /\ cursor' = [cursor EXCEPT ![th[t].arena] = Base(th[t].arena)]
    /\ live' = SelectSeq(live, LAMBDA b : b.arena # th[t].arena)
    /\ th' = [th EXCEPT ![t] = [@ EXCEPT !.pc = "reset_flag"]]
    /\ UNCHANGED <<is_recycled, mem, arenas, initializing, leaked, published, released>>

\* Mutant of ResetFlag: the flag is flipped instead of set.
ResetFlagToggle(t) ==
    /\ th[t].pc = "reset_flag"
    /\ is_recycled' = [is_recycled EXCEPT ![th[t].arena] = ~@]
    /\ th' = [th EXCEPT ![t] = [@ EXCEPT !.pc = "ret"]]
    /\ UNCHANGED <<cursor, mem, arenas, initializing, leaked, live, published, released>>

\* Mutant of ResetAllNext: the scratch engine is left out.
ResetAllNextNoScratch(a) ==
    CASE a = "witness" -> "polynomial"
      [] OTHER -> a

\* reset_all: witness.secure_reset(); polynomial.reset(); scratch.reset().
\* The engine reset_all turns to once the reset of engine a has returned.
ResetAllNext(a) ==
    CASE a = "witness" -> "polynomial"
      [] a = "polynomial" -> "scratch"
      [] OTHER -> a

\* reset: is_recycled.store(true).  Inside reset_all the next engine follows.
ResetFlag(t) ==
    /\ th[t].pc = "reset_flag"
    /\ is_recycled' = [is_recycled EXCEPT ![th[t].arena] = TRUE]
    /\ th' = [th EXCEPT ![t] =
                IF th[t].op = "reset_all" /\ ResetAllNext(th[t].arena) # th[t].arena
                THEN [@ EXCEPT !.pc = "reset_cursor", !.arena = ResetAllNext(th[t].arena)]
                ELSE [@ EXCEPT !.pc = "ret"]]
    /\ UNCHANGED <<cursor, mem, arenas, initializing, leaked, live, published, released>>

\* ArenaManager::reset_all on a manager no other thread is using.
CallResetAll(t) ==
    /\ th[t].pc = "idle"
    /\ Quiescent(t)
    /\ th' = [th EXCEPT ![t] = [Idle EXCEPT !.pc = "wipe", !.op = "reset_all",
                                            !.arena = "witness"]]
    /\ UNCHANGED <<cursor, is_recycled, mem, arenas, initializing, leaked, live, published, released>>

\* ------------------------------------------------ NAlloc: lazy initialization

\* NAlloc::new(): the slot is empty, the flag clear, and no manager exists yet.
\* The pages the platform layer will hand out are zero.
InitFacade ==
    /\ cursor = [a \in Engines |-> NULL]
    /\ is_recycled = [a \in Engines |-> FALSE]
    /\ mem = [x \in Mapped |-> 0]
    /\ arenas = NULL
    /\ initializing = FALSE
    /\ leaked = 0
    /\ th = [t \in Threads |-> Idle]
    /\ live = <<>>
    /\ published = <<>>
    /\ released = <<>>

\* The address System.alloc returns for the manager thread t constructs.
ManagerPtr(t) == t

\* <NAlloc as GlobalAlloc>::alloc(layout): let arenas = self.get_arenas().
CallAmbientAlloc(t, size, align) ==
    /\ th[t].pc = "idle"
    /\ th' = [th EXCEPT ![t] = [Idle EXCEPT !.pc = "get", !.op = "ambient_alloc",
                                            !.size = size, !.align = align]]
    /\ UNCHANGED <<cursor, is_recycled, mem, arenas, initializing, leaked, live, published, released>>

\* get_arenas: let ptr = self.arenas.load(Acquire); if null, init_arenas().
GetArenas(t) ==
    /\ th[t].pc = "get"
    /\ th' = [th EXCEPT ![t] = IF arenas # NULL
                               THEN [@ EXCEPT !.pc = "route", !.mgr = arenas]
                               ELSE [@ EXCEPT !.pc = "init_load"]]
    /\ UNCHANGED <<cursor, is_recycled, mem, arenas, initializing, leaked, live, published, released>>

\* init_arenas, fast path: the slot is loaded again and returned if populated.
InitLoad(t) ==
    /\ th[t].pc = "init_load"
    /\ th' = [th EXCEPT ![t] = IF arenas # NULL
                               THEN [@ EXCEPT !.pc = "route", !.mgr = arenas]
                               ELSE [@ EXCEPT !.pc = "init_cas"]]
    /\ UNCHANGED <<cursor, is_recycled, mem, arenas, initializing, leaked, live, published, released>>

\* Mutant of FlagWon: every thread that finds the slot empty constructs.
FlagWonAlways(flag) == TRUE

\* initializing.compare_exchange(false, true, ..).is_ok()
FlagWon(flag) == flag = FALSE

\* init_arenas: the thread that flips the flag constructs; the others spin.
InitCas(t) ==
    /\ th[t].pc = "init_cas"
    /\ IF FlagWon(initializing)
       THEN /\ initializing' = TRUE
            /\ th' = [th EXCEPT ![t] = [@ EXCEPT !.pc = "construct"]]
       ELSE /\ initializing' = initializing
            /\ th' = [th EXCEPT ![t] = [@ EXCEPT !.pc = "spin"]]
    /\ UNCHANGED <<cursor, is_recycled, mem, arenas, leaked, live, published, released>>

\* ArenaManager::new(): three sys::alloc calls, each returning early with `?` when
\* the platform refuses; failed = 0 when all three succeed, else the call that
\* failed.  The regions reserved before a failure are not released.
Construct(t, failed) ==
    /\ th[t].pc = "construct"
    /\ IF failed = 0
       THEN /\ cursor' = NewCursor
            /\ is_recycled' = [a \in Engines |-> FALSE]
            /\ leaked' = leaked
            /\ th' = [th EXCEPT ![t] = [@ EXCEPT !.pc = "box"]]
       ELSE /\ leaked' = leaked + (failed - 1)
            /\ th' = [th EXCEPT ![t] = [@ EXCEPT !.pc = "init_failed"]]
            /\ UNCHANGED <<cursor, is_recycled>>
    /\ UNCHANGED <<mem, arenas, initializing, live, published, released>>

\* Mutant of InitFailed: the thread panics with the flag still set.
InitFailedKeepsFlag(t) ==
    /\ th[t].pc = "init_failed"
    /\ initializing' = initializing
    /\ th' = [th EXCEPT ![t] = [@ EXCEPT !.pc = "panicked"]]
    /\ UNCHANGED <<cursor, is_recycled, mem, arenas, leaked, live, published, released>>

\* Err(_) => { self.initializing.store(false, Release); panic!(..) }
InitFailed(t) ==
    /\ th[t].pc = "init_failed"
    /\ initializing' = FALSE
    /\ th' = [th EXCEPT ![t] = [@ EXCEPT !.pc = "panicked"]]
    /\ UNCHANGED <<cursor, is_recycled, mem, arenas, leaked, live, published, released>>

\* Ok(manager): raw = System.alloc(layout); write(raw, manager);
\* self.arenas.store(raw, Release); return raw.  The flag stays set.
Publish(t) ==
    /\ th[t].pc = "box"
    /\ arenas' = ManagerPtr(t)
    /\ published' = Append(published, ManagerPtr(t))
    /\ th' = [th EXCEPT ![t] = [@ EXCEPT !.pc = "route", !.mgr = ManagerPtr(t)]]
    /\ UNCHANGED <<cursor, is_recycled, mem, initializing, leaked, live, released>>

\* raw.is_null(): the flag is cleared and the thread panics; unwinding drops the
\* manager, which releases its three regions.
BoxFailed(t) ==
    /\ th[t].pc = "box"
    /\ initializing' = FALSE
    /\ cursor' = [a \in Engines |-> NULL]
    /\ th' = [th EXCEPT ![t] = [@ EXCEPT !.pc = "panicked"]]
    /\ UNCHANGED <<is_recycled, mem, arenas, leaked, live, published, released>>

\* loop { spin_loop(); let ptr = self.arenas.load(Acquire); if !ptr.is_null() { return ptr } }
Spin(t) ==
    /\ th[t].pc = "spin"
    /\ th' = [th EXCEPT ![t] = IF arenas # NULL
                               THEN [@ EXCEPT !.pc = "route", !.mgr = arenas]
                               ELSE @]
    /\ UNCHANGED <<cursor, is_recycled, mem, arenas, initializing, leaked, live, published, released>>

\* Mutant of RouteOf: small requests are served from the witness arena.
RouteOfWitness(size) == IF size > LARGE_ALLOC_THRESHOLD THEN "polynomial" ELSE "witness"

\* Mutant of RouteOf: a request of exactly the threshold goes to polynomial.
RouteOfInclusive(size) == IF size >= LARGE_ALLOC_THRESHOLD THEN "polynomial" ELSE "scratch"

\* if layout.size() > LARGE_ALLOC_THRESHOLD { polynomial } else { scratch }
RouteOf(size) == IF size > LARGE_ALLOC_THRESHOLD THEN "polynomial" ELSE "scratch"

\* GlobalAlloc::alloc: arenas.<routed>().alloc(layout.size(), layout.align()).
Route(t) ==
    /\ th[t].pc = "route"
    /\ th' = [th EXCEPT ![t] = [@ EXCEPT !.pc = "load", !.arena = RouteOf(th[t].size)]]
    /\ UNCHANGED <<cursor, is_recycled, mem, arenas, initializing, leaked, live, published, released>>

\* ------------------------------------- NAlloc: the other GlobalAlloc methods

\* A facade whose first operation has completed: the manager is published, the
\* flag stays set, the engines are fresh and their pages zero.
InitOps ==
    /\ cursor = NewCursor
    /\ is_recycled = [a \in Engines |-> FALSE]
    /\ mem = [x \in Mapped |-> 0]
    /\ arenas = ManagerPtr(1)
    /\ initializing = TRUE
    /\ leaked = 0
    /\ th = [t \in Threads |-> Idle]
    /\ live = <<>>
    /\ published = <<ManagerPtr(1)>>
    /\ released = <<>>

\* The blocks the ambient entry point has handed out and no reset has revoked:
\* what a caller may pass to realloc and dealloc.
AmbientBlocks == {i \in 1 .. Len(live) : live[i].arena \in {"polynomial", "scratch"}}

\* alloc_zeroed(layout): let ptr = self.alloc(layout).
CallAllocZeroed(t, size, align) ==
    /\ th[t].pc = "idle"
    /\ th' = [th EXCEPT ![t] = [Idle EXCEPT !.pc = "get", !.op = "alloc_zeroed",
                                            !.size = size, !.align = align]]
    /\ UNCHANGED <<cursor, is_recycled, mem, arenas, initializing, leaked, live, published, released>>

\* Mutant of ZeroedFill: fresh pages are trusted to be zero and nothing is written.
ZeroedFillTrusting(t) ==
    /\ th[t].pc = "zero_ambient"
    /\ th' = [th EXCEPT ![t] = [@ EXCEPT !.pc = "ret"]]
    /\ UNCHANGED <<cursor, is_recycled, mem, arenas, initializing, leaked, live, published, released>>

\* if !ptr.is_null() { write_bytes(ptr, 0, layout.size()) }; ptr
ZeroedFill(t) ==
    /\ th[t].pc = "zero_ambient"
    /\ mem' = [x \in Mapped |->
                 IF th[t].ret <= x /\ x < th[t].ret + th[t].size THEN 0 ELSE mem[x]]
    /\ th' = [th EXCEPT ![t] = [@ EXCEPT !.pc = "ret"]]
    /\ UNCHANGED <<cursor, is_recycled, arenas, initializing, leaked, live, published, released>>

\* Mutant of ReallocShrinks: a request of the same size is served by a new block.
ReallocShrinksStrictly(new_size, old_size) == new_size < old_size

\* if new_size <= old_size { return ptr }
ReallocShrinks(new_size, old_size) == new_size <= old_size

\* realloc(ptr, layout, new_size) on a block of the ambient entry point: the same
\* pointer when the block does not grow, else self.alloc(new_layout) with the
\* old layout's alignment.
CallRealloc(t, ptr, old_size, align, new_size) ==
    /\ th[t].pc = "idle"
    /\ th' = [th EXCEPT ![t] =
                IF ReallocShrinks(new_size, old_size)
                THEN [Idle EXCEPT !.pc = "ret", !.op = "realloc", !.size = new_size,
                                  !.align = align, !.ptr = ptr, !.old = old_size,
                                  !.ret = ptr]
                ELSE [Idle EXCEPT !.pc = "get", !.op = "realloc", !.size = new_size,
                                  !.align = align, !.ptr = ptr, !.old = old_size]]
    /\ UNCHANGED <<cursor, is_recycled, mem, arenas, initializing, leaked, live, published, released>>

\* Mutant of CopyLen: the last byte of the old block is not copied.
CopyLenShort(t) == th[t].old - 1

\* copy_nonoverlapping(ptr, new_ptr, old_size): the number of bytes copied.
CopyLen(t) == th[t].old

\* copy_nonoverlapping(ptr, new_ptr, old_size); self.dealloc(ptr, layout); new_ptr
ReallocCopy(t) ==
    /\ th[t].pc = "copy"
    /\ mem' = [x \in Mapped |->
                 IF th[t].ret <= x /\ x < th[t].ret + CopyLen(t)
                    /\ (th[t].ptr + (x - th[t].ret)) \in Mapped
                 THEN mem[th[t].ptr + (x - th[t].ret)]
                 ELSE mem[x]]
    /\ th' = [th EXCEPT ![t] = [@ EXCEPT !.pc = "ret"]]
    /\ UNCHANGED <<cursor, is_recycled, arenas, initializing, leaked, live, published, released>>

\* Mutant of DeallocCursor: the last block of an arena is given back.
DeallocCursorRewind(ptr, size) ==
    [a \in Engines |-> IF cursor[a] = ptr + size THEN ptr ELSE cursor[a]]

\* dealloc(_ptr, _layout) has an empty body: the cursors it leaves behind.
DeallocCursor(ptr, size) == cursor

\* dealloc(ptr, layout) on a block of the ambient entry point.
Dealloc(t, ptr, size) ==
    /\ th[t].pc = "idle"
    /\ cursor' = DeallocCursor(ptr, size)
    /\ th' = [th EXCEPT ![t] = [Idle EXCEPT !.pc = "ret", !.op = "dealloc",
                                            !.ptr = ptr, !.old = size]]
    /\ UNCHANGED <<is_recycled, mem, arenas, initializing, leaked, live, published, released>>

\* --------------------------------- ArenaManager: handles, stats and Drop

\* ArenaManager::with_sizes(..).unwrap(): a manager owned as a library object,
\* outside any facade, over three fresh regions.
InitManager ==
    /\ cursor = NewCursor
    /\ is_recycled = [a \in Engines |-> FALSE]
    /\ mem = [x \in Mapped |-> 0]
    /\ arenas = NULL
    /\ initializing = FALSE
    /\ leaked = 0
    /\ th = [t \in Threads |-> Idle]
    /\ live = <<>>
    /\ published = <<>>
    /\ released = <<>>

\* witness(), polynomial(), scratch(): self.<engine>.clone().  The Arc names the
\* manager's own engine and keeps the BumpAlloc, not its region, alive.
Handle(a) == a

\* The manager has not been dropped and is not being dropped.
ManagerAlive == released = <<>> /\ \A u \in Threads : th[u].op # "drop"

\* Mutant of ArenaStats: polynomial_used is read from the scratch engine.
ArenaStatsSwapped ==
    [witness_used |-> Used("witness"), witness_capacity |-> Capacity("witness"),
     polynomial_used |-> Used("scratch"), polynomial_capacity |-> Capacity("polynomial"),
     scratch_used |-> Used("scratch"), scratch_capacity |-> Capacity("scratch")]

\* ArenaManager::stats: used() and capacity() of the three engines.
ArenaStats ==
    [witness_used |-> Used("witness"), witness_capacity |-> Capacity("witness"),
     polynomial_used |-> Used("polynomial"), polynomial_capacity |-> Capacity("polynomial"),
     scratch_used |-> Used("scratch"), scratch_capacity |-> Capacity("scratch")]

\* ArenaStats::total_used.
TotalUsed(s) == WrapAdd(WrapAdd(s.witness_used, s.polynomial_used), s.scratch_used)

\* ArenaStats::total_capacity.
TotalCapacity(s) ==
    WrapAdd(WrapAdd(s.witness_capacity, s.polynomial_capacity), s.scratch_capacity)

\* manager.stats() while no other call is in progress.
Stats(t) ==
    /\ th[t].pc = "idle"
    /\ ManagerAlive
    /\ Quiescent(t)
    /\ th' = [th EXCEPT ![t] = [Idle EXCEPT !.pc = "ret", !.op = "stats",
                                            !.stats = ArenaStats]]
    /\ UNCHANGED <<cursor, is_recycled, mem, arenas, initializing, leaked, live, published, released>>

\* sys::dealloc(ptr, size): Ok without a system call for a null pointer, else
\* the outcome of munmap.  The record of the call.
SysDealloc(ptr, size, unmapped) ==
    [ptr |-> ptr, size |-> size, ok |-> (ptr = NULL \/ unmapped)]

\* The region of engine a has been returned to the operating system.
Released(a) ==
    \E i \in 1 .. Len(released) : released[i].ptr = Base(a) /\ released[i].ok

\* The manager goes out of scope: Drop::drop reads the three base pointers and
\* capacities and turns to the witness region.
Drop(t) ==
    /\ th[t].pc = "idle"
    /\ ManagerAlive
    /\ Quiescent(t)
    /\ th' = [th EXCEPT ![t] = [Idle EXCEPT !.pc = "unmap", !.op = "drop",
                                            !.arena = "witness"]]
    /\ UNCHANGED <<cursor, is_recycled, mem, arenas, initializing, leaked, live, published, released>>

\* Mutant of AfterDealloc: a failed release ends the teardown, as `?` would.
AfterDeallocAbort(a, ok) ==
    IF ok /\ a # "scratch" THEN ResetAllNext(a) ELSE "done"

\* let _ = sys::dealloc(..): the result is discarded and the next region
\* follows, witness, polynomial, scratch.
AfterDealloc(a, ok) ==
    IF a # "scratch" THEN ResetAllNext(a) ELSE "done"

\* let _ = sys::dealloc(<engine>_ptr, <engine>_size): one release attempt.
DropDealloc(t, unmapped) ==
    /\ th[t].pc = "unmap"
    /\ LET a == th[t].arena
           r == SysDealloc(Base(a), Capacity(a), unmapped)
       IN  /\ released' = Append(released, r)
           /\ th' = [th EXCEPT ![t] =
                       IF AfterDealloc(a, r.ok) = "done"
                       THEN [@ EXCEPT !.pc = "ret"]
                       ELSE [@ EXCEPT !.arena = AfterDealloc(a, r.ok)]]
    /\ UNCHANGED <<cursor, is_recycled, mem, arenas, initializing, leaked, live, published>>

\* An initialized NAlloc owned as a library object goes out of scope.  NAlloc has
\* no Drop impl and its fields are an AtomicPtr and an AtomicBool: the manager
\* behind the raw pointer is not dropped.
DropFacade(t) ==
    /\ th[t].pc = "idle"
    /\ Quiescent(t)
    /\ arenas # NULL
    /\ th' = [th EXCEPT ![t] = [Idle EXCEPT !.pc = "ret", !.op = "drop_facade",
                                            !.mgr = arenas]]
    /\ UNCHANGED <<cursor, is_recycled, mem, arenas, initializing, leaked, live, published, released>>

\* The facade has not gone out of scope.
FacadeAlive == \A u \in Threads : th[u].op # "drop_facade"

\* ------------------------------------------------------- PolynomialArena

\* polynomial.rs: CACHE_LINE_ALIGN (64), scaled to the regions' size.
CACHE_LINE_ALIGN == 2

\* polynomial.rs: PAGE_ALIGN (4096), scaled to the regions' size.
PAGE_ALIGN == 4

\* alloc_fft_friendly(size): self.inner.alloc(size, CACHE_LINE_ALIGN).
CallAllocFftFriendly(t, a, size) ==
    /\ th[t].pc = "idle"
    /\ th' = [th EXCEPT ![t] = [Idle EXCEPT !.pc = "load", !.op = "alloc_fft_friendly",
                                            !.arena = a, !.size = size,
                                            !.align = CACHE_LINE_ALIGN]]
    /\ UNCHANGED <<cursor, is_recycled, mem, arenas, initializing, leaked, live, published, released>>

\* Mutant of CallAllocHuge: the cache-line preset is passed on.
CallAllocHugeCacheLine(t, a, size) ==
    /\ th[t].pc = "idle"
    /\ th' = [th EXCEPT ![t] = [Idle EXCEPT !.pc = "load", !.op = "alloc_huge",
                                            !.arena = a, !.size = size,
                                            !.align = CACHE_LINE_ALIGN]]
    /\ UNCHANGED <<cursor, is_recycled, mem, arenas, initializing, leaked, live, published, released>>

\* alloc_huge(size): self.inner.alloc(size, PAGE_ALIGN).
CallAllocHuge(t, a, size) ==
    /\ th[t].pc = "idle"
    /\ th' = [th EXCEPT ![t] = [Idle EXCEPT !.pc = "load", !.op = "alloc_huge",
                                            !.arena = a, !.size = size,
                                            !.align = PAGE_ALIGN]]
    /\ UNCHANGED <<cursor, is_recycled, mem, arenas, initializing, leaked, live, published, released>>

\* -------------------------------------------------------- specifications

\* The steps inside BumpAlloc::alloc and the return to the caller.
AllocStep(t) ==
    \/ AllocLoad(t)
    \/ AllocCas(t)
    \/ AllocCasFail(t)
    \/ AllocCasSpurious(t)
    \/ Return(t)

\* The steps inside reset.
ResetStep(t) ==
    \/ ResetCursor(t)
    \/ ResetFlag(t)

\* One engine shared by the threads within its contract: plain allocations, and
\* resets of the quiescent engine.
Next ==
    \E t \in Threads :
        \/ \E size \in Sizes, align \in Aligns : CallAlloc(t, Engine, size, align, TRUE)
        \/ CallReset(t, Engine, FALSE, TRUE)
        \/ AllocStep(t)
        \/ ResetStep(t)

Spec == Init /\ [][Next]_vars

\* The same engine with reset and secure_reset called at any time, also while
\* allocations are in flight.
NextRace ==
    \E t \in Threads :
        \/ \E size \in Sizes, align \in Aligns : CallAlloc(t, Engine, size, align, FALSE)
        \/ \E secure \in BOOLEAN : CallReset(t, Engine, secure, FALSE)
        \/ AllocStep(t)
        \/ SecureWipe(t)
        \/ ResetStep(t)

SpecRace == Init /\ [][NextRace]_vars

\* The engine asked for any size a usize can hold, in a release build (the sums
\* wrap) or a debug build (they panic).
NextWide ==
    \E t \in Threads :
        \/ \E size \in Sizes \cup HugeSizes, align \in Aligns :
               Len(live) < MaxBlocks /\ CallAlloc(t, Engine, size, align, TRUE)
        \/ AllocStep(t)
        \/ AllocOverflowPanic(t)

SpecWide == Init /\ [][NextWide]_vars

\* A WitnessArena handle over the engine: zeroed allocations that user code fills,
\* plain resets and secure wipes of the quiescent engine.
NextMem ==
    \E t \in Threads :
        \/ \E size \in SmallSizes, align \in SmallAligns :
               CallWitnessAlloc(t, Engine, size, align, TRUE)
        \/ \E secure \in BOOLEAN : CallReset(t, Engine, secure, TRUE)
        \/ AllocStep(t)
        \/ WitnessZero(t)
        \/ \E v \in FillBytes : UserWrite(t, v)
        \/ SecureWipe(t)
        \/ ResetStep(t)

SpecMem == Init /\ [][NextMem]_vars

\* The steps of get_arenas and init_arenas.
InitStep(t) ==
    \/ GetArenas(t)
    \/ InitLoad(t)
    \/ InitCas(t)
    \/ \E failed \in 0 .. 3 : Construct(t, failed)
    \/ InitFailed(t)
    \/ Publish(t)
    \/ BoxFailed(t)
    \/ Spin(t)

\* A fresh facade whose threads allocate through the ambient entry point; the
\* first calls race to initialize it, and the platform may refuse memory.
NextFacade ==
    \E t \in Threads :
        \/ \E size \in SmallSizes, align \in SmallAligns : CallAmbientAlloc(t, size, align)
        \/ InitStep(t)
        \/ Route(t)
        \/ AllocStep(t)

SpecFacade == InitFacade /\ [][NextFacade]_vars

\* The same, with every thread that is inside a call scheduled again and again.
SpecFacadeFair ==
    SpecFacade /\ \A t \in Threads : WF_vars(InitStep(t) \/ Route(t) \/ AllocStep(t))

\* The number of threads inside a call.
InFlight == Cardinality({u \in Threads : th[u].pc # "idle"})

\* No reset_all is in progress: the contract under which other calls may start.
NoResetAll == \A u \in Threads : th[u].op # "reset_all"

\* A call of one of the four GlobalAlloc methods; realloc and dealloc are given a
\* block the ambient entry point handed out, with an alignment that block has.
CallAmbient(t) ==
    \/ \E size \in SmallSizes, align \in SmallAligns :
          \/ CallAmbientAlloc(t, size, align)
          \/ CallAllocZeroed(t, size, align)
    \/ \E i \in AmbientBlocks :
          \/ \E new_size \in SmallSizes, align \in SmallAligns :
                /\ live[i].ptr % align = 0
                /\ CallRealloc(t, live[i].ptr, live[i].size, align, new_size)
          \/ Dealloc(t, live[i].ptr, live[i].size)

\* The steps inside BumpAlloc::alloc when no other call is in flight: the
\* compare-exchange can fail only spuriously.
AllocStepAlone(t) ==
    \/ AllocLoad(t)
    \/ AllocCas(t)
    \/ AllocCasSpurious(t)
    \/ Return(t)

\* The steps of a GlobalAlloc call around the engine's alloc.
AmbientStep(t) ==
    \/ GetArenas(t)
    \/ Route(t)
    \/ ZeroedFill(t)
    \/ ReallocCopy(t)

\* The steps of reset_all.
ResetAllStep(t) ==
    \/ SecureWipe(t)
    \/ ResetStep(t)

\* An initialized facade used through every GlobalAlloc method, one call at a
\* time, and reset as a whole.  Callers fill the blocks they receive.
NextOps ==
    \E t \in Threads :
        \/ Quiescent(t) /\ Len(live) < MaxBlocks /\ CallAmbient(t)
        \/ CallResetAll(t)
        \/ AmbientStep(t)
        \/ AllocStepAlone(t)
        \/ \E v \in FillBytes : UserWrite(t, v)
        \/ ResetAllStep(t)

SpecOps == InitOps /\ [][NextOps]_vars

\* The same facade with its witness handle in use beside the ambient entry
\* point, by threads whose calls overlap.  Only the holders of witness blocks
\* write to their blocks here.
NextFrame ==
    \E t \in Threads :
        \/ /\ NoResetAll /\ InFlight + Len(live) < MaxBlocks
           /\ \/ CallAmbient(t)
              \/ \E size \in SmallSizes, align \in SmallAligns :
                    CallWitnessAlloc(t, "witness", size, align, TRUE)
        \/ CallResetAll(t)
        \/ AmbientStep(t)
        \/ AllocStep(t)
        \/ WitnessZero(t)
        \/ \E v \in FillBytes : th[t].op = "witness_alloc" /\ UserWrite(t, v)
        \/ ResetAllStep(t)

SpecFrame == InitOps /\ [][NextFrame]_vars

\* The facade filled through the ambient entry point and the witness handle, one
\* call at a time, and reset as a whole.
NextResetAll ==
    \E t \in Threads :
        \/ /\ Quiescent(t) /\ Len(live) < MaxBlocks
           /\ \E size \in SmallSizes, align \in SmallAligns :
                 \/ CallAmbientAlloc(t, size, align)
                 \/ CallWitnessAlloc(t, "witness", size, align, TRUE)
        \/ CallResetAll(t)
        \/ GetArenas(t)
        \/ Route(t)
        \/ AllocStepAlone(t)
        \/ WitnessZero(t)
        \/ \E v \in FillBytes : UserWrite(t, v)
        \/ ResetAllStep(t)

SpecResetAll == InitOps /\ [][NextResetAll]_vars

\* A manager owned as a library object: its handles allocate, its statistics are
\* read, it is dropped, and the handles cloned from it go on being used.
NextManager ==
    \E t \in Threads :
        \/ /\ InFlight + Len(live) < MaxBlocks
           /\ \E a \in Arenas, size \in SmallSizes, align \in SmallAligns :
                 CallAlloc(t, Handle(a), size, align, TRUE)
        \/ AllocStep(t)
        \/ Stats(t)
        \/ Drop(t)
        \/ \E unmapped \in BOOLEAN : DropDealloc(t, unmapped)

SpecManager == InitManager /\ [][NextManager]_vars

\* An initialized facade owned as a library object: ambient allocations one at
\* a time, until the facade goes out of scope.
NextFacadeDrop ==
    \E t \in Threads :
        \/ /\ FacadeAlive /\ Quiescent(t) /\ Len(live) < MaxBlocks
           /\ \E size \in SmallSizes, align \in SmallAligns : CallAmbientAlloc(t, size, align)
        \/ GetArenas(t)
        \/ Route(t)
        \/ th[t].op # "drop_facade" /\ AllocStepAlone(t)
        \/ FacadeAlive /\ DropFacade(t)

SpecFacadeDrop == InitOps /\ [][NextFacadeDrop]_vars

\* A PolynomialArena over an engine whose base is not page aligned, asked for any
\* size a usize can hold through its two presets and with custom alignments.
NextPoly ==
    \E t \in Threads :
        \/ /\ InFlight + Len(live) < MaxBlocks
           /\ \E size \in Sizes \cup HugeSizes :
                 \/ CallAllocFftFriendly(t, Engine, size)
                 \/ CallAllocHuge(t, Engine, size)
                 \/ \E align \in Aligns : CallAlloc(t, Engine, size, align, TRUE)
        \/ AllocStep(t)
        \/ AllocOverflowPanic(t)

SpecPoly == Init /\ [][NextPoly]_vars

\* One engine that is never reset, with every thread inside alloc scheduled
\* again and again and a compare-exchange that does not fail spuriously for ever.
NextLockFree ==
    \E t \in Threads :
        \/ \E size \in Sizes, align \in Aligns : CallAlloc(t, Engine, size, align, TRUE)
        \/ AllocStep(t)

SpecLockFree ==
    /\ Init /\ [][NextLockFree]_vars
    /\ \A t \in Threads :
          /\ WF_vars(AllocLoad(t) \/ AllocCasFail(t) \/ Return(t))
          /\ SF_vars(AllocCas(t))

\* An initialized facade whose blocks are filled and grown, one call at a time
\* and without a reset, until the arenas are exhausted.
NextGrow ==
    \E t \in Threads :
        \/ /\ Quiescent(t) /\ Len(live) < MaxBlocks + 2
           /\ \/ \E size \in SmallSizes, align \in SmallAligns : CallAmbientAlloc(t, size, align)
              \/ \E i \in AmbientBlocks, new_size \in SmallSizes, align \in SmallAligns :
                    /\ live[i].ptr % align = 0
                    /\ CallRealloc(t, live[i].ptr, live[i].size, align, new_size)
        \/ GetArenas(t)
        \/ Route(t)
        \/ AllocStepAlone(t)
        \/ ReallocCopy(t)
        \/ \E v \in FillBytes : UserWrite(t, v)

SpecGrow == InitOps /\ [][NextGrow]_vars

\* An engine behind a PolynomialArena handle: plain allocations and the two
\* presets, callers that fill their blocks, and plain resets of the quiescent
\* engine.  Nothing here asks for zeroed memory.
NextPlain ==
    \E t \in Threads :
        \/ /\ InFlight + Len(live) < MaxBlocks
           /\ \E size \in SmallSizes :
                 \/ \E align \in SmallAligns : CallAlloc(t, Engine, size, align, TRUE)
                 \/ CallAllocFftFriendly(t, Engine, size) /\ NotResetting(Engine)
                 \/ CallAllocHuge(t, Engine, size) /\ NotResetting(Engine)
        \/ CallReset(t, Engine, FALSE, TRUE)
        \/ AllocStep(t)
        \/ \E v \in FillBytes : UserWrite(t, v)
        \/ ResetStep(t)

SpecPlain == Init /\ [][NextPlain]_vars

\* An initialized facade used by two threads through all its ways in: the
\* ambient entry point with Layout-sized requests, and the handles that
\* NAlloc::witness, polynomial and scratch build anew on every call, the last two
\* asked for any size a usize can hold.  Its statistics are read in between.
NextHandles ==
    \E t \in Threads :
        \/ /\ InFlight + Len(live) < MaxBlocks
           /\ \/ \E size \in SmallSizes, align \in SmallAligns :
                    \/ CallAmbientAlloc(t, size, align)
                    \/ CallWitnessAlloc(t, Handle("witness"), size, align, TRUE)
              \/ \E size \in SmallSizes \cup HugeSizes :
                    \/ CallAllocFftFriendly(t, Handle("polynomial"), size)
                    \/ CallAllocHuge(t, Handle("polynomial"), size)
                    \/ \E align \in SmallAligns :
                          CallAlloc(t, Handle("scratch"), size, align, TRUE)
        \/ Stats(t)
        \/ GetArenas(t)
        \/ Route(t)
        \/ AllocStep(t)
        \/ AllocOverflowPanic(t)
        \/ WitnessZero(t)

SpecHandles == InitOps /\ [][NextHandles]_vars

\* Two engines driven by one request sequence, each by its own thread and so each
\* single-threaded: the first over the witness region, the second over the
\* scratch region.  Both bases are multiples of every alignment in Aligns.
TwinEngine(t) == IF t = 1 THEN "witness" ELSE "scratch"

\* Requests that fit in no region; the largest ends past the address space when
\* carved from the higher of the two bases.
TwinWide == {AddrSpace - Base(TwinEngine(2)), AddrSpace - Base(TwinEngine(2)) - 1}

\* The same alloc(size, align) is called on both engines.
TwinCallAlloc(size, align) ==
    /\ \A t \in Threads : th[t].pc = "idle"
    /\ th' = [t \in Threads |->
                [Idle EXCEPT !.pc = "load", !.op = "alloc", !.arena = TwinEngine(t),
                             !.size = size, !.align = align]]
    /\ UNCHANGED <<cursor, is_recycled, mem, arenas, initializing, leaked, live, published, released>>

\* reset() is called on both engines.
TwinCallReset ==
    /\ \A t \in Threads : th[t].pc = "idle"
    /\ th' = [t \in Threads |->
                [Idle EXCEPT !.pc = "reset_cursor", !.op = "reset", !.arena = TwinEngine(t)]]
    /\ UNCHANGED <<cursor, is_recycled, mem, arenas, initializing, leaked, live, published, released>>

\* Both calls have returned; the two callers go on to the next request.
TwinReturn ==
    /\ \A t \in Threads : th[t].pc = "ret"
    /\ th' = [t \in Threads |-> Idle]
    /\ UNCHANGED <<cursor, is_recycled, mem, arenas, initializing, leaked, live, published, released>>

\* The two engines given the same sequence of requests and resets, any usize as
\* a size; a debug build panics where a release build wraps.
NextTwin ==
    \/ /\ Len(live) < 2 * MaxBlocks
       /\ \E size \in Sizes \cup TwinWide, align \in Aligns : TwinCallAlloc(size, align)
    \/ TwinCallReset
    \/ TwinReturn
    \/ \E t \in Threads :
          \/ AllocLoad(t)
          \/ AllocCas(t)
          \/ AllocCasSpurious(t)
          \/ AllocOverflowPanic(t)
          \/ ResetStep(t)

SpecTwin == Init /\ [][NextTwin]_vars

\* ----------------------------------------------------------------- claims

\* Two byte ranges do not overlap.
Disjoint(b1, b2) == b1.ptr + b1.size <= b2.ptr \/ b2.ptr + b2.size <= b1.ptr

\* The smallest multiple of align that is >= c, over the integers.
RoundUp(c, align) == ((c + align - 1) \div align) * align

\* A thread holds the result of a call of kind op, about to return it.
Returned(t, op) == th[t].pc = "ret" /\ th[t].op = op

\* C1 (as claimed): any two blocks an engine handed out since its last reset, to
\* whichever threads and in whichever interleaving of their loads and
\* compare-exchanges, satisfy p1 + s1 <= p2 or p2 + s2 <= p1.
C1_NoOverlap ==
    \A i, j \in 1 .. Len(live) :
        (i < j /\ live[i].arena = live[j].arena) => Disjoint(live[i], live[j])

\* C1 witness: two calls that were in flight together have both succeeded.
C1_TwoConcurrentBlocks ==
    \E t, u \in Threads :
        /\ t # u
        /\ Returned(t, "alloc") /\ th[t].ret # NULL
        /\ Returned(u, "alloc") /\ th[u].ret # NULL
        /\ th[t].arena = th[u].arena

\* C2 (as claimed): every non-null address p returned by alloc(size, align), for
\* every size > 0, satisfies base <= p and p + size <= base + capacity.
C2_InRegion ==
    \A t \in Threads :
        (Returned(t, "alloc") /\ th[t].ret # NULL) =>
            /\ Base(th[t].arena) <= th[t].ret
            /\ th[t].ret + th[t].size <= Limit(th[t].arena)

\* C3: every non-null address returned by alloc(size, align) is divisible by align.
C3_Aligned ==
    \A t \in Threads :
        (Returned(t, "alloc") /\ th[t].ret # NULL) => th[t].ret % th[t].align = 0

\* C3 witness: an aligned block was returned although the cursor stood at an
\* address that is not a multiple of the alignment.
C3_PaddedBlock ==
    \E t \in Threads :
        /\ Returned(t, "alloc") /\ th[t].ret # NULL /\ th[t].align > 1
        /\ \E i \in 1 .. Len(live) :
               /\ live[i].arena = th[t].arena
               /\ live[i].ptr + live[i].size < th[t].ret
               /\ (live[i].ptr + live[i].size) % th[t].align # 0
               /\ th[t].ret - (live[i].ptr + live[i].size) < th[t].align

\* C4 (as claimed): alloc returns null exactly when the aligned start plus size
\* exceeds base + capacity; the step that returns null leaves the cursor where it
\* was, so that a request of one byte still succeeds whenever a byte is left.
C4_NullIffExhausted ==
    [][\A t \in Threads :
          LET a == th[t].arena
              endOf(c) == RoundUp(c, th[t].align) + th[t].size
          IN  th[t].op = "alloc" =>
                /\ (th[t].pc = "load" /\ th'[t].pc = "ret") =>
                       /\ th'[t].ret = NULL
                       /\ endOf(cursor[a]) > Limit(a)
                       /\ cursor' = cursor
                       /\ cursor[a] < Limit(a) => ~Exhausted(a, NextOf(cursor'[a], 1, 1))
                /\ (th[t].pc = "load" /\ th'[t].pc = "cas") => endOf(cursor[a]) <= Limit(a)
                /\ (th[t].pc = "cas" /\ th'[t].pc = "ret") =>
                       /\ th'[t].ret # NULL
                       /\ endOf(th[t].current) <= Limit(a)]_vars

\* C4 witness: a request no larger than what remains was refused for its
\* alignment padding alone, and the bytes that remain are still there.
C4_RefusedForPadding ==
    \E t \in Threads :
        /\ Returned(t, "alloc") /\ th[t].ret = NULL
        /\ th[t].size <= Remaining(th[t].arena)
        /\ Used(th[t].arena) > 0

\* C5: whatever the interleaving of alloc, reset and secure_reset,
\* base <= cursor <= base + capacity, and used() + remaining() == capacity()
\* with neither of them wrapped below zero.
C5_CursorInRange ==
    /\ Base(Engine) <= cursor[Engine] /\ cursor[Engine] <= Limit(Engine)
    /\ Used(Engine) <= Capacity(Engine)
    /\ Remaining(Engine) <= Capacity(Engine)
    /\ Used(Engine) + Remaining(Engine) = Capacity(Engine)

\* C5 witness: an allocation succeeded in the middle of another thread's reset,
\* between its store to the cursor and its store to the flag.
C5_AllocDuringReset ==
    \E t, u \in Threads :
        /\ th[u].pc = "reset_flag" /\ th[u].arena = Engine
        /\ Returned(t, "alloc") /\ th[t].ret # NULL /\ th[t].arena = Engine
        /\ cursor[Engine] > Base(Engine)

\* C6: every byte of the block a successful WitnessArena::alloc returns is zero
\* when the call returns.
C6_ZeroOnAlloc ==
    \A t \in Threads :
        (Returned(t, "witness_alloc") /\ th[t].ret # NULL) =>
            \A x \in th[t].ret .. (th[t].ret + th[t].size - 1) : mem[x] = 0

\* C6 witness: a zeroed block is returned by an engine that was reset without a
\* wipe, whose region still holds the previous generation's bytes beside it.
C6_ZeroedAfterPlainReset ==
    \E t \in Threads :
        /\ Returned(t, "witness_alloc") /\ th[t].ret # NULL
        /\ is_recycled[th[t].arena]
        /\ \E x \in Region(th[t].arena) : mem[x] # 0

\* C7: when secure_reset returns on a quiescent engine, every byte of
\* [base, base + capacity) equals the wipe pattern.
C7_WholeRegionWiped ==
    \A t \in Threads :
        Returned(t, "secure_reset") =>
            \A x \in Region(th[t].arena) : mem[x] = SECURE_WIPE_PATTERN

\* C7 witness: a secure_reset has returned that found non-zero bytes at or beyond
\* the cursor when it began.
C7_StaleTailWiped ==
    \E t \in Threads : Returned(t, "secure_reset") /\ th[t].stale

\* The threads that have won the initializing flag so far: the one constructing,
\* those whose construction failed, and the one that published.
FlagWinners ==
    {t \in Threads : th[t].pc \in {"construct", "box", "init_failed", "panicked"}}
        \cup {t \in Threads : \E i \in 1 .. Len(published) : published[i] = ManagerPtr(t)}

\* C8 (as claimed): exactly one thread wins the initializing flag and constructs.
C8_OneFlagWinner == Cardinality(FlagWinners) <= 1

\* C8 (amended): at most one manager is ever published; at most one thread at a
\* time holds the flag and constructs; every thread that get_arenas has returned
\* to holds the published pointer; a populated slot never changes.
C8_OneManager ==
    /\ [](/\ Len(published) <= 1
          /\ arenas # NULL => published = <<arenas>>
          /\ arenas = NULL => published = <<>>
          /\ Cardinality({t \in Threads :
                            th[t].pc \in {"construct", "box", "init_failed"}}) <= 1
          /\ \A t \in Threads : th[t].mgr # NULL => th[t].mgr = arenas)
    /\ [][arenas # NULL => arenas' = arenas]_vars

\* C8 witness: the thread that lost the race uses the manager the winner built.
C8_LoserUsesWinners ==
    \E t, u \in Threads :
        /\ t # u
        /\ arenas = ManagerPtr(t)
        /\ th[t].mgr = arenas
        /\ th[u].mgr = arenas

\* The positions of a thread inside get_arenas / init_arenas.
InitPath == {"get", "init_load", "init_cas", "construct", "init_failed", "box", "spin"}

\* C9 (as claimed): under fair scheduling every thread that enters the lazy
\* initialization leaves it, also when the winner's construction fails.
C9_InitTerminates ==
    \A t \in Threads : (th[t].pc \in InitPath) ~> (th[t].pc \notin InitPath)

\* C10: the ambient alloc carves from the polynomial arena exactly when
\* layout.size() > LARGE_ALLOC_THRESHOLD and from scratch otherwise; the arena
\* not selected is left unchanged.
C10_Routing ==
    [][\A t \in Threads :
          LET big == th[t].size > LARGE_ALLOC_THRESHOLD
              sel == IF big THEN "polynomial" ELSE "scratch"
          IN  (th[t].op = "ambient_alloc" /\ th[t].pc \in {"load", "cas"}) =>
                /\ th[t].arena = sel
                /\ (th[t].pc = "cas" /\ th'[t].pc = "ret") =>
                       /\ cursor'[sel] > cursor[sel]
                       /\ th'[t].ret \in Region(sel)
                       /\ \A a \in Engines \ {sel} : cursor'[a] = cursor[a]
                /\ (th[t].pc = "load" /\ th'[t].pc = "ret") => cursor' = cursor]_vars

\* C10 witness: a request of exactly the threshold was served from scratch while
\* a larger one had been served from polynomial.
C10_ThresholdToScratch ==
    \E t \in Threads :
        /\ Returned(t, "ambient_alloc")
        /\ th[t].size = LARGE_ALLOC_THRESHOLD
        /\ th[t].ret \in Region("scratch")
        /\ \E i \in 1 .. Len(live) :
               live[i].arena = "polynomial" /\ live[i].size > LARGE_ALLOC_THRESHOLD

\* C12 (as claimed): a construction that fails at its second or third
\* reservation has released every region it reserved before the error is
\* returned, so no region stays reserved by a failed construction.
C12_NothingLeaked == leaked = 0

\* C18: the recycled flag is false at construction, no step of an allocation
\* changes it, it is true when a reset or secure_reset returns, only the flag
\* store of a reset changes it, and once true it is never false again.
C18_RecycledOnce ==
    /\ is_recycled[Engine] = FALSE
    /\ [](\A t \in Threads :
            (Returned(t, "reset") \/ Returned(t, "secure_reset")) =>
                is_recycled[th[t].arena])
    /\ [][/\ \A a \in Engines : is_recycled[a] => is_recycled'[a]
          /\ \A t \in Threads :
                (th'[t] # th[t] /\ th[t].op = "alloc") => is_recycled' = is_recycled
          /\ is_recycled' # is_recycled =>
                \E t \in Threads : th[t].pc = "reset_flag" /\ th'[t].pc = "ret"]_vars

\* C18 witness: a block was handed out by an engine whose flag is already set,
\* while a further reset is about to store the flag again.
C18_ResetAgain ==
    \E t, u \in Threads :
        /\ is_recycled[Engine]
        /\ th[u].pc = "reset_flag" /\ th[u].arena = Engine
        /\ Returned(t, "alloc") /\ th[t].ret # NULL

\* C19 (as claimed): from one state to the next, while no reset runs, the cursor
\* and used() never decrease and remaining() never increases.
C19_CursorMonotone ==
    [][(\A t \in Threads : th[t].pc # "reset_cursor") =>
          /\ cursor'[Engine] >= cursor[Engine]
          /\ Used(Engine)' >= Used(Engine)
          /\ Remaining(Engine)' <= Remaining(Engine)]_vars

\* C20: when an allocation succeeds right after a successful allocation of the
\* same size on the same engine, and no padding is needed (align = 1, or the first
\* address and the size are multiples of align), the two addresses differ by
\* exactly size.
C20_Sequential ==
    [][\A t \in Threads :
          LET n == Len(live)
              align == th[t].align
          IN  ( /\ th[t].op = "alloc" /\ th[t].pc = "cas" /\ th'[t].pc = "ret"
                /\ th'[t].ret # NULL
                /\ n > 0
                /\ live[n].arena = th[t].arena
                /\ live[n].size = th[t].size
                /\ \/ align = 1
                   \/ live[n].ptr % align = 0 /\ th[t].size % align = 0 )
              => th'[t].ret = WrapAdd(live[n].ptr, th[t].size)]_vars

\* C20 witness: two successive blocks of the same size at an alignment above 1,
\* the first at a multiple of the alignment, the second exactly size further.
C20_TwoInARow ==
    \E t \in Threads :
        LET n == Len(live)
        IN  /\ Returned(t, "alloc") /\ th[t].ret # NULL /\ th[t].align > 1
            /\ n >= 2
            /\ live[n].ptr = th[t].ret /\ live[n].size = th[t].size
            /\ live[n - 1].arena = live[n].arena
            /\ live[n - 1].size = live[n].size
            /\ live[n - 1].ptr % th[t].align = 0
            /\ live[n].ptr = live[n - 1].ptr + live[n].size

\* The four methods of the ambient entry point.
AmbientOps == {"ambient_alloc", "alloc_zeroed", "realloc", "dealloc"}

\* Thread t takes a step of a call of kind op: it enters the call or moves on
\* inside it.  The step after the return belongs to the caller.
StepOf(t, op) == th'[t] # th[t] /\ th'[t].op = op

\* The cursor, the flag and the bytes of engine a are what they were.
ArenaUntouched(a) ==
    /\ cursor'[a] = cursor[a]
    /\ is_recycled'[a] = is_recycled[a]
    /\ \A x \in Region(a) : mem'[x] = mem[x]

\* C11: no step of alloc, dealloc, realloc or alloc_zeroed changes the witness
\* arena's cursor, recycled flag or bytes; they change only in steps of a call on
\* the witness handle, of its holder's writes, or of reset_all.
C11_WitnessFrame ==
    [][/\ \A t \in Threads :
             (\E op \in AmbientOps : StepOf(t, op)) => ArenaUntouched("witness")
       /\ ~ArenaUntouched("witness") =>
             \E t \in Threads :
                 th'[t] # th[t] /\ th[t].op \in {"witness_alloc", "reset_all"}]_vars

\* C11 witness: an ambient alloc_zeroed or growing realloc has returned a block
\* while the witness arena holds a block with its holder's bytes in it.
C11_AmbientBesideWitness ==
    \E t \in Threads :
        /\ th[t].pc = "ret" /\ th[t].op \in {"alloc_zeroed", "realloc"}
        /\ th[t].ret # NULL
        /\ Used("witness") > 0
        /\ \E x \in Region("witness") : mem[x] # 0

\* C13: a growing realloc that succeeds returns a block of new_size bytes inside
\* an arena, apart from the old block, whose first old bytes equal the old
\* block's; the old block stays handed out, its bytes are not written and no
\* cursor moves back during the call.
C13_ReallocGrows ==
    /\ [](\A t \in Threads :
            (Returned(t, "realloc") /\ th[t].ret # NULL /\ th[t].size > th[t].old) =>
                LET p == th[t].ptr
                    q == th[t].ret
                    a == RouteOf(th[t].size)
                IN  /\ Base(a) <= q /\ q + th[t].size <= Limit(a)
                    /\ q + th[t].size <= p \/ p + th[t].old <= q
                    /\ \A i \in 0 .. (th[t].old - 1) : mem[q + i] = mem[p + i]
                    /\ \E i \in 1 .. Len(live) : live[i].ptr = p /\ live[i].size = th[t].old
                    /\ \E i \in 1 .. Len(live) : live[i].ptr = q /\ live[i].size = th[t].size)
    /\ [][\A t \in Threads :
            StepOf(t, "realloc") =>
                /\ \A a \in Arenas : cursor'[a] >= cursor[a]
                /\ \A x \in Mapped :
                      (th'[t].ptr <= x /\ x < th'[t].ptr + th'[t].old) => mem'[x] = mem[x]]_vars

\* C13 witness: a block its holder had filled was grown into a block that now
\* holds the same bytes, in memory that was zero.
C13_GrownCopy ==
    \E t \in Threads :
        /\ Returned(t, "realloc") /\ th[t].ret # NULL /\ th[t].size > th[t].old
        /\ \A i \in 0 .. (th[t].old - 1) : mem[th[t].ret + i] # 0
        /\ mem[th[t].ret + th[t].old] = 0

\* C14: a realloc whose new size is not greater than the old one returns the
\* address it was given, and its step moves no cursor, writes no byte and changes
\* no flag.
C14_ReallocInPlace ==
    /\ [](\A t \in Threads :
            (Returned(t, "realloc") /\ th[t].size <= th[t].old) => th[t].ret = th[t].ptr)
    /\ [][\A t \in Threads :
            (StepOf(t, "realloc") /\ th'[t].size <= th'[t].old) =>
                /\ th'[t].pc = "ret"
                /\ UNCHANGED <<cursor, is_recycled, mem, live>>]_vars

\* C14 witness: realloc was asked for the size the block already has and gave the
\* block back, its bytes in place.
C14_SameSize ==
    \E t \in Threads :
        /\ Returned(t, "realloc") /\ th[t].size = th[t].old
        /\ th[t].ret = th[t].ptr
        /\ mem[th[t].ptr] # 0

\* C15: every byte of a block alloc_zeroed returns is zero when it returns.
C15_ZeroedBlock ==
    \A t \in Threads :
        (Returned(t, "alloc_zeroed") /\ th[t].ret # NULL) =>
            \A x \in th[t].ret .. (th[t].ret + th[t].size - 1) : mem[x] = 0

\* C15 witness: alloc_zeroed returns a block of an arena that reset_all has
\* recycled and whose region still holds bytes of the generation before.
C15_ZeroedAfterResetAll ==
    \E t \in Threads :
        /\ Returned(t, "alloc_zeroed") /\ th[t].ret # NULL
        /\ is_recycled[RouteOf(th[t].size)]
        /\ \E x \in Region(RouteOf(th[t].size)) : mem[x] # 0

\* C16: dealloc leaves every cursor, every recycled flag, every byte and every
\* block handed out as it was; a cursor moves back only in a reset.
C16_DeallocNoOp ==
    [][/\ \A t \in Threads :
             StepOf(t, "dealloc") => UNCHANGED <<cursor, is_recycled, mem, live>>
       /\ (\E a \in Arenas : cursor'[a] < cursor[a]) =>
             \E t \in Threads : th[t].pc = "reset_cursor"]_vars

\* C16 witness: the block most recently carved from its arena was passed to
\* dealloc, and the arena's cursor still stands at its end.
C16_LastBlockKept ==
    \E t \in Threads :
        /\ Returned(t, "dealloc")
        /\ \E a \in {"polynomial", "scratch"} :
               /\ Base(a) <= th[t].ptr
               /\ cursor[a] = th[t].ptr + th[t].old
        /\ mem[th[t].ptr] # 0

\* C17: when reset_all returns, the three engines have cursor = base, used = 0
\* and the recycled flag set, and the witness region is all zero; no step of
\* reset_all writes a byte of the polynomial or the scratch region.
C17_ResetAll ==
    /\ [](\A t \in Threads :
            Returned(t, "reset_all") =>
                /\ \A a \in Arenas :
                      cursor[a] = Base(a) /\ Used(a) = 0 /\ is_recycled[a]
                /\ \A x \in Region("witness") : mem[x] = 0)
    /\ [][\A t \in Threads :
            (th'[t] # th[t] /\ th[t].op = "reset_all") =>
                \A x \in Region("polynomial") \cup Region("scratch") : mem'[x] = mem[x]]_vars

\* C17 witness: reset_all has returned, and the polynomial and scratch regions
\* still hold what their callers wrote.
C17_AmbientBytesKept ==
    \E t \in Threads :
        /\ Returned(t, "reset_all")
        /\ \E x \in Region("polynomial") : mem[x] # 0
        /\ \E x \in Region("scratch") : mem[x] # 0

\* C21 (as claimed): no alloc through an arena handle returns a non-null address
\* inside a region that has been released to the operating system.
C21_HandleWithinManager ==
    \A t \in Threads :
        (Returned(t, "alloc") /\ th[t].ret # NULL) => ~Released(th[t].arena)

\* C22: when the teardown of a manager ends, sys::dealloc has been called exactly
\* three times, once for each region with that region's base and capacity, in
\* the order witness, polynomial, scratch, whatever each call returned; a region
\* is released only in a step of the teardown, and the teardown never panics.
C22_TeardownReleasesAll ==
    /\ [](\A t \in Threads :
            /\ Returned(t, "drop") =>
                  /\ Len(released) = 3
                  /\ \A a \in Arenas :
                        Cardinality({i \in 1 .. Len(released) :
                                        /\ released[i].ptr = Base(a)
                                        /\ released[i].size = Capacity(a)}) = 1
                  /\ released[1].ptr = Base("witness")
                  /\ released[2].ptr = Base("polynomial")
                  /\ released[3].ptr = Base("scratch")
            /\ th[t].op = "drop" => th[t].pc \in {"unmap", "ret"})
    /\ [][released' # released =>
            \E t \in Threads :
                /\ th[t].op = "drop" /\ th[t].pc = "unmap"
                /\ Len(released') = Len(released) + 1]_vars

\* C22 witness: the teardown has ended after the release of the witness region
\* failed, and the two regions after it were released all the same.
C22_FailureDidNotAbort ==
    \E t \in Threads :
        /\ Returned(t, "drop")
        /\ Len(released) = 3
        /\ ~released[1].ok
        /\ released[2].ok /\ released[3].ok

\* C23 (as claimed): when an initialized facade owned as a library object has
\* been dropped, the three regions of the manager it published are released.
C23_FacadeDropReleases ==
    \A t \in Threads :
        (Returned(t, "drop_facade") /\ th[t].mgr # NULL) =>
            \A a \in Arenas : Released(a)

\* C24: stats on a quiescent manager reports for each arena used = cursor - base
\* and capacity = the size the engine was built with; total_used and
\* total_capacity are the sums of the three fields; a manager from which nothing
\* was allocated reports total_used = 0.
C24_Stats ==
    [][\A t \in Threads :
          (th[t].pc = "idle" /\ th'[t].op = "stats") =>
              LET s == th'[t].stats
              IN  /\ s.witness_used = cursor["witness"] - Base("witness")
                  /\ s.polynomial_used = cursor["polynomial"] - Base("polynomial")
                  /\ s.scratch_used = cursor["scratch"] - Base("scratch")
                  /\ s.witness_capacity = Limit("witness") - Base("witness")
                  /\ s.polynomial_capacity = Limit("polynomial") - Base("polynomial")
                  /\ s.scratch_capacity = Limit("scratch") - Base("scratch")
                  /\ TotalUsed(s) = s.witness_used + s.polynomial_used + s.scratch_used
                  /\ TotalCapacity(s) =
                        s.witness_capacity + s.polynomial_capacity + s.scratch_capacity
                  /\ (live = <<>> /\ cursor = NewCursor) => TotalUsed(s) = 0]_vars

\* C24 witness: stats is returned by a manager two of whose arenas are in use
\* and the third untouched, with a total that is the two blocks' sizes.
C24_TwoArenasUsed ==
    \E t \in Threads :
        /\ Returned(t, "stats")
        /\ th[t].stats.polynomial_used > 0
        /\ th[t].stats.scratch_used > 0
        /\ th[t].stats.witness_used = 0
        /\ TotalUsed(th[t].stats) = live[1].size + live[2].size

\* C25: every non-null address alloc_fft_friendly returns is a multiple of
\* CACHE_LINE_ALIGN and every non-null address alloc_huge returns is a multiple
\* of PAGE_ALIGN, for any size and wherever earlier allocations left the cursor.
C25_PresetAligned ==
    \A t \in Threads :
        /\ (Returned(t, "alloc_fft_friendly") /\ th[t].ret # NULL) =>
               th[t].ret % CACHE_LINE_ALIGN = 0
        /\ (Returned(t, "alloc_huge") /\ th[t].ret # NULL) =>
               th[t].ret % PAGE_ALIGN = 0

\* C25 witness: alloc_huge returns a page-aligned block although an earlier
\* allocation had left the cursor at an odd address.
C25_HugeAfterOddCursor ==
    \E t \in Threads :
        /\ Returned(t, "alloc_huge") /\ th[t].ret # NULL
        /\ Len(live) = 2
        /\ live[2].ptr = th[t].ret
        /\ (live[1].ptr + live[1].size) % CACHE_LINE_ALIGN # 0
        /\ live[1].ptr + live[1].size < th[t].ret

\* C26 (as claimed): a successful alloc(size, align) with no other call in
\* progress returns the smallest multiple of align that is >= the cursor, sets
\* the cursor to that address plus size, and used() grows by padding + size.
C26_BumpStep ==
    [][\A t \in Threads :
          LET a == th[t].arena
              p == RoundUp(cursor[a], th[t].align)
          IN  ( /\ th[t].op = "alloc" /\ th[t].pc = "cas" /\ th'[t].pc = "ret"
                /\ Quiescent(t) )
              => /\ th'[t].ret = p
                 /\ cursor'[a] = p + th[t].size
                 /\ Used(a)' = Used(a) + (p - cursor[a]) + th[t].size]_vars

\* C27 (as claimed): alloc returns null and leaves the cursor unchanged whenever
\* the unwrapped value of aligned cursor + size exceeds base + capacity, and no
\* compare-exchange of alloc stores a cursor below the previous one.
C27_OverflowRefused ==
    [][\A t \in Threads :
          LET a == th[t].arena
              trueNext == RoundUp(cursor[a], th[t].align) + th[t].size
          IN  th[t].op = "alloc" =>
                /\ (th[t].pc = "load" /\ th'[t] # th[t] /\ trueNext > Limit(a)) =>
                       /\ th'[t].pc = "ret" /\ th'[t].ret = NULL
                       /\ cursor' = cursor
                /\ (th[t].pc = "cas" /\ th'[t].pc = "ret") =>
                       /\ th[t].current + th[t].size < AddrSpace
                       /\ cursor'[a] >= cursor[a]]_vars

\* C28: the step in which a failed initializer panics leaves the initializing
\* flag false and the slot empty, and the flag is true over an empty slot only
\* while some thread is still constructing.
C28_FlagReleasedOnFailure ==
    /\ [](initializing /\ arenas = NULL =>
            \E t \in Threads : th[t].pc \in {"construct", "box", "init_failed"})
    /\ [][\A t \in Threads :
            (th[t].pc \in {"init_failed", "box"} /\ th'[t].pc = "panicked") =>
                initializing' = FALSE /\ arenas' = NULL]_vars

\* C28 witness: after one thread's construction failed and it panicked, another
\* first call has claimed the flag and is constructing anew.
C28_RetryAfterFailure ==
    \E t, u \in Threads :
        /\ th[t].pc = "panicked"
        /\ th[u].pc = "construct"
        /\ initializing /\ arenas = NULL

C30_GrowFailureKeepsOld ==
    /\ [](\A t \in Threads :
            (Returned(t, "realloc") /\ th[t].size > th[t].old /\ th[t].ret = NULL) =>
                /\ \E i \in 1 .. Len(live) :
                      live[i].ptr = th[t].ptr /\ live[i].size = th[t].old
                /\ RoundUp(cursor[RouteOf(th[t].size)], th[t].align) + th[t].size
                      > Limit(RouteOf(th[t].size)))
    /\ [][\A t \in Threads :
            /\ ( /\ th[t].op = "realloc" /\ th[t].pc = "load" /\ th'[t] # th[t]
                 /\ RoundUp(cursor[th[t].arena], th[t].align) + th[t].size
                       > Limit(th[t].arena) )
               => th'[t].pc = "ret" /\ th'[t].ret = NULL
            /\ ( /\ StepOf(t, "realloc") /\ th'[t].size > th'[t].old
                 /\ th'[t].pc # "copy"
                 /\ ~(th'[t].pc = "ret" /\ th'[t].ret # NULL) )
               => UNCHANGED <<cursor, is_recycled, mem, live>>]_vars

\* C30 witness: a growing realloc has returned null for a block that still holds
\* the bytes its holder wrote.
C30_RefusedGrowth ==
    \E t \in Threads :
        /\ Returned(t, "realloc") /\ th[t].size > th[t].old /\ th[t].ret = NULL
        /\ \A i \in 0 .. (th[t].old - 1) : mem[th[t].ptr + i] # 0

\* The address a fresh engine returns for a request: the aligned base, or null
\* when the request does not fit in the region.
FreshResult(a, size, align) ==
    IF RoundUp(Base(a), align) + size > Limit(a) THEN NULL ELSE RoundUp(Base(a), align)

\* The engine-level allocation calls: BumpAlloc::alloc and the two presets.
PlainOps == {"alloc", "alloc_fft_friendly", "alloc_huge"}

\* C31: when reset returns on a quiescent engine the cursor is at base, used() is
\* 0 and remaining() is capacity(); an allocation served from a cursor at base on
\* a recycled engine gets what a fresh engine gives for the same request.
C31_ResetRewinds ==
    /\ [](\A t \in Threads :
            Returned(t, "reset") =>
                /\ cursor[th[t].arena] = Base(th[t].arena)
                /\ Used(th[t].arena) = 0
                /\ Remaining(th[t].arena) = Capacity(th[t].arena))
    /\ [][\A t \in Threads :
            LET a == th[t].arena
                fresh == FreshResult(a, th[t].size, th[t].align)
            IN  ( /\ th[t].op \in PlainOps /\ is_recycled[a] /\ cursor[a] = Base(a)
                  /\ th'[t].pc = "ret" /\ th[t].pc \in {"load", "cas"} )
                => th'[t].ret = fresh]_vars

\* C31 witness: after a reset, an allocation returns the address of a block handed
\* out before it, which still holds the bytes its former holder wrote into
\* memory that was zero.
C31_BlockReused ==
    \E t \in Threads :
        /\ \E op \in PlainOps : Returned(t, op)
        /\ th[t].ret # NULL
        /\ is_recycled[th[t].arena]
        /\ th[t].ret = FreshResult(th[t].arena, th[t].size, th[t].align)
        /\ mem[th[t].ret] = 255
        /\ \E x \in Region(th[t].arena) : mem[x] = 0

\* C32: no step of BumpAlloc::alloc, of the PolynomialArena allocation calls or of
\* the plain reset writes a byte; the bytes change only when the holder of a
\* block fills it, and such steps change no byte outside that block.
C32_EngineWritesNothing ==
    [][/\ \A t \in Threads :
             (\E op \in PlainOps \cup {"reset"} : StepOf(t, op)) => mem' = mem
       /\ mem' # mem =>
             \E t \in Threads :
                 /\ th[t].pc = "ret" /\ th'[t].pc = "idle"
                 /\ \A x \in Mapped :
                       mem'[x] # mem[x] =>
                           th[t].ret <= x /\ x < th[t].ret + th[t].size]_vars

\* C32 witness: a preset allocation after a plain reset returns a block whose
\* bytes are those the previous generation wrote.
C32_StaleBytesKept ==
    \E t \in Threads :
        /\ Returned(t, "alloc_fft_friendly") \/ Returned(t, "alloc_huge")
        /\ th[t].ret # NULL
        /\ is_recycled[th[t].arena]
        /\ \A x \in th[t].ret .. (th[t].ret + th[t].size - 1) : mem[x] = 255
        /\ \E x \in Region(th[t].arena) : mem[x] = 0

\* C33 (as claimed): a request whose aligned start plus size is exactly
\* base + capacity is not refused and leaves remaining() = 0, and while the
\* cursor stands at base + capacity every alloc returns null.
C33_ExactFitThenFull ==
    [][\A t \in Threads :
          LET a == th[t].arena
              fits(c) == RoundUp(c, th[t].align) + th[t].size = Limit(a)
          IN  th[t].op = "alloc" =>
                /\ (th[t].pc = "load" /\ th'[t] # th[t] /\ fits(cursor[a])) =>
                       th'[t].pc = "cas"
                /\ (th[t].pc = "cas" /\ th'[t].pc = "ret" /\ fits(th[t].current)) =>
                       th'[t].ret # NULL /\ Remaining(a)' = 0
                /\ (th[t].pc = "load" /\ th'[t] # th[t] /\ cursor[a] = Limit(a)) =>
                       th'[t].pc = "ret" /\ th'[t].ret = NULL]_vars

\* The bytes of the blocks among the first n handed out that came from engine a.
RECURSIVE BlockBytes(_, _)
BlockBytes(a, n) ==
    IF n = 0 THEN 0
    ELSE BlockBytes(a, n - 1) + (IF live[n].arena = a THEN live[n].size ELSE 0)

\* C34 (as claimed): the blocks handed out for one role since its last reset,
\* through whichever handle or through the ambient entry point, do not overlap
\* one another, and the used figure stats reports for the role covers them all.
C34_RolesShareCursor ==
    /\ \A i, j \in 1 .. Len(live) :
          (i # j /\ live[i].arena = live[j].arena) =>
              \/ live[i].ptr + live[i].size <= live[j].ptr
              \/ live[j].ptr + live[j].size <= live[i].ptr
    /\ ArenaStats.witness_used >= BlockBytes("witness", Len(live))
    /\ ArenaStats.polynomial_used >= BlockBytes("polynomial", Len(live))
    /\ ArenaStats.scratch_used >= BlockBytes("scratch", Len(live))

\* C35 (as claimed): when the same alloc request, after the same sequence of
\* requests and resets, has finished on both engines, it has finished the same
\* way on both: either null on both, or blocks at the same offset from the
\* engine's base.
C35_SameOffsets ==
    LET done(t) == th[t].op = "alloc" /\ th[t].pc \in {"ret", "panicked"}
        offset(t) == th[t].ret - Base(TwinEngine(t))
    IN  (done(1) /\ done(2)) =>
            /\ th[1].pc = th[2].pc
            /\ (th[1].ret = NULL) <=> (th[2].ret = NULL)
            /\ th[1].ret # NULL => offset(1) = offset(2)

====
